---- MODULE Spec2Model ----
(***************************************************************************)
(* Model of optimize_survivor_pool (nfl_survivor_pool_2024.py).            *)
(*                                                                         *)
(* The odds frame is a sequence of rows, one per game, in the order        *)
(* get_all_weeks_odds_df appends them (week by week).  Probabilities are   *)
(* kept in percent, so that sums and comparisons are integer.  The integer *)
(* program handed to pulp is modelled by what an exact solver returns: any *)
(* maximiser of the objective among the assignments that satisfy the       *)
(* constraints; when no assignment satisfies them the status is not        *)
(* Optimal and the variable values the code goes on to read are not bound  *)
(* by the constraints.                                                     *)
(***************************************************************************)
EXTENDS Integers, Sequences, FiniteSets, TLC

VARIABLES
    nfl_odds_df,             \* argument: sequence of game rows
    current_week,            \* argument
    selected_teams,          \* argument: teams already used
    optimization_duration,   \* argument
    pc,                      \* "start", "built", "solved", "done", "error"
    remaining_weeks,         \* local, line 108
    available_teams,         \* local, line 111
    x,                       \* keys of the binary variables, line 114
    objective,               \* terms of the objective, line 117
    prob_status,             \* status returned by prob.solve()
    chosen,                  \* keys whose variable has value 1 after solve
    metrics,                 \* the returned frame, as a sequence of records
    run,                     \* 1 for the first call, 2 for the repeated call
    first                    \* outcome of the first call

vars == <<nfl_odds_df, current_week, selected_teams, optimization_duration,
          pc, remaining_weeks, available_teams, x, objective, prob_status,
          chosen, metrics, run, first>>

args == <<nfl_odds_df, current_week, selected_teams, optimization_duration>>

(***************************** bounds **************************************)
MaxWeek == 2
MaxGames == 2
MaxSelected == 2
MaxDuration == 2

Teams == {"A", "B", "C", "D"}

\* <<home, away>> pairings a row may hold; every team is home in some, away in others
Fixtures == {<<"A", "B">>, <<"C", "A">>, <<"A", "D">>,
             <<"B", "C">>, <<"D", "B">>, <<"C", "D">>}

\* probabilities in percent
Probabilities == {50, 90}

(***************************** helpers *************************************)
Min(a, b) == IF a <= b THEN a ELSE b

MaxOf(S) == CHOOSE m \in S : \A y \in S : y <= m

Range(s) == {s[i] : i \in 1..Len(s)}

IsIn(e, s) == \E i \in 1..Len(s) : s[i] = e

GameRows ==
    [Week : 1..MaxWeek, HomeTeam : Teams, AwayTeam : Teams,
     HomeProbability : Probabilities, AwayProbability : Probabilities]

Games == {g \in GameRows : <<g.HomeTeam, g.AwayTeam>> \in Fixtures}

\* frames as get_all_weeks_odds_df builds them: rows appended week after week
OddsFrames ==
    UNION {{df \in [1..n -> Games] :
              \A i \in 1..(n - 1) : df[i].Week <= df[i + 1].Week}
           : n \in 1..MaxGames}

(******************** lines 106-111: horizon and teams *********************)
RECURSIVE Unique(_)
Unique(s) ==
    IF s = <<>> THEN <<>>
    ELSE LET front == Unique(SubSeq(s, 1, Len(s) - 1))
             last == s[Len(s)]
         IN IF IsIn(last, front) THEN front ELSE Append(front, last)

WeekColumn(df) == [i \in 1..Len(df) |-> df[i].Week]

WeeksOf(df) == Unique(WeekColumn(df))

\* EndWeek with the duration ignored: the horizon runs to the last week (a
\* faulty variant)
EndWeek_IgnoresDuration(df, cw, dur) == MaxOf(Range(WeeksOf(df)))

EndWeek(df, cw, dur) == Min(cw + dur - 1, MaxOf(Range(WeeksOf(df))))

InWindow(w, cw, end_week) == cw <= w /\ w <= end_week

RemainingWeeks(df, cw, dur) ==
    LET end_week == EndWeek(df, cw, dur)
        Keep(w) == InWindow(w, cw, end_week)
    IN SelectSeq(WeeksOf(df), Keep)

TeamsOf(df) ==
    {df[i].HomeTeam : i \in 1..Len(df)} \cup {df[i].AwayTeam : i \in 1..Len(df)}

\* AvailableTeams with the filter on selected_teams forgotten (a faulty variant)
AvailableTeams_KeepsSelected(df, sel) == TeamsOf(df)

AvailableTeams(df, sel) == {t \in TeamsOf(df) : t \notin sel}

(******************** lines 113-139: the integer program *******************)
\* line 114-115: one binary variable per (week, team) of the horizon
VariableKeys(rem, avail) == {<<w, t>> : w \in Range(rem), t \in avail}

\* lines 118-124: a row contributes its two terms only when its week is in the
\* horizon and BOTH of its teams are available
RowInObjective(row, rem, avail, keys) ==
    /\ IsIn(row.Week, rem)
    /\ (row.HomeTeam \in avail /\ <<row.Week, row.HomeTeam>> \in keys)
    /\ (row.AwayTeam \in avail /\ <<row.Week, row.AwayTeam>> \in keys)

RowTerms(row, rem, avail, keys) ==
    IF RowInObjective(row, rem, avail, keys)
    THEN << [key |-> <<row.Week, row.HomeTeam>>, coef |-> row.HomeProbability],
            [key |-> <<row.Week, row.AwayTeam>>, coef |-> row.AwayProbability] >>
    ELSE <<>>

RECURSIVE ObjectiveTerms(_, _, _, _)
ObjectiveTerms(df, rem, avail, keys) ==
    IF df = <<>> THEN <<>>
    ELSE ObjectiveTerms(SubSeq(df, 1, Len(df) - 1), rem, avail, keys)
           \o RowTerms(df[Len(df)], rem, avail, keys)

\* value of the objective when exactly the variables in c are 1
RECURSIVE ObjectiveValue(_, _)
ObjectiveValue(terms, c) ==
    IF terms = <<>> THEN 0
    ELSE (IF Head(terms).key \in c THEN Head(terms).coef ELSE 0)
           + ObjectiveValue(Tail(terms), c)

\* lines 127-129: each team is used at most once over the horizon
TeamConstraint(c, rem, avail) ==
    \A t \in avail : Cardinality({w \in Range(rem) : <<w, t>> \in c}) <= 1

\* lines 131-133: each week of the horizon gets exactly one team
WeekConstraint(c, rem, avail) ==
    \A w \in Range(rem) : Cardinality({t \in avail : <<w, t>> \in c}) = 1

\* the 0/1 points that satisfy the week constraints: one team for every week
OnePerWeek(rem, avail) ==
    {{<<w, f[w]>> : w \in Range(rem)} : f \in [Range(rem) -> avail]}

Feasible(rem, avail) ==
    {c \in OnePerWeek(rem, avail) :
        TeamConstraint(c, rem, avail) /\ WeekConstraint(c, rem, avail)}

Maximisers(feas, terms) ==
    {c \in feas : \A d \in feas : ObjectiveValue(terms, d) <= ObjectiveValue(terms, c)}

\* line 135: what prob.solve() leaves behind.  With a feasible program the
\* status is Optimal and the values are one of the maximisers (which one is the
\* solver's choice).  Otherwise the status is not Optimal, the code only prints
\* it (lines 137-139), and the values it reads next are any 0/1 pattern.
SolveOutcomes(keys, terms, rem, avail) ==
    LET feas == Feasible(rem, avail)
    IN IF feas # {}
       THEN {[status |-> "Optimal", ones |-> c] : c \in Maximisers(feas, terms)}
       ELSE {[status |-> "Infeasible", ones |-> c] : c \in SUBSET keys}

(******************** lines 141-168: the metrics frame *********************)
\* lines 145-148: the rows of week w in which t is the home or the away team
MatchingGames(df, w, t) ==
    LET Match(g) == \/ (g.Week = w /\ g.HomeTeam = t)
                    \/ (g.Week = w /\ g.AwayTeam = t)
    IN SelectSeq(df, Match)

\* line 149: .iloc[0] of an empty selection raises IndexError
Raises(df, c) == \E k \in c : MatchingGames(df, k[1], k[2]) = <<>>

\* MetricsRecord with the probabilities read as if t were always the home team
\* (a faulty variant)
MetricsRecord_AlwaysHome(df, w, t) ==
    LET selected_game == MatchingGames(df, w, t)[1]
        home_team == selected_game.HomeTeam
        away_team == selected_game.AwayTeam
    IN [Week |-> w,
        SelectedTeam |-> t,
        OpponentTeam |-> IF t = home_team THEN away_team ELSE home_team,
        SelectedTeamProbability |-> selected_game.HomeProbability,
        OpponentTeamProbability |-> selected_game.AwayProbability,
        ExpectedValue |-> selected_game.HomeProbability]

\* lines 149-166
MetricsRecord(df, w, t) ==
    LET selected_game == MatchingGames(df, w, t)[1]
        home_team == selected_game.HomeTeam
        away_team == selected_game.AwayTeam
        selected_team_probability ==
            IF t = home_team THEN selected_game.HomeProbability
            ELSE selected_game.AwayProbability
        opponent_team_probability ==
            IF t = home_team THEN selected_game.AwayProbability
            ELSE selected_game.HomeProbability
    IN [Week |-> w,
        SelectedTeam |-> t,
        OpponentTeam |-> IF t = home_team THEN away_team ELSE home_team,
        SelectedTeamProbability |-> selected_team_probability,
        OpponentTeamProbability |-> opponent_team_probability,
        ExpectedValue |-> selected_team_probability]

\* line 143-144: inner loop over the list of available teams
RECURSIVE TeamLoop(_, _, _, _)
TeamLoop(df, w, order, c) ==
    IF order = <<>> THEN <<>>
    ELSE LET rest == TeamLoop(df, w, Tail(order), c)
         IN IF <<w, Head(order)>> \in c
            THEN <<MetricsRecord(df, w, Head(order))>> \o rest
            ELSE rest

\* line 142: outer loop over the weeks of the horizon
RECURSIVE WeekLoop(_, _, _, _)
WeekLoop(df, rem, order, c) ==
    IF rem = <<>> THEN <<>>
    ELSE TeamLoop(df, Head(rem), order, c) \o WeekLoop(df, Tail(rem), order, c)

\* line 109-111: list(set(...)) lists the teams in the set's iteration order
ListOrders ==
    [S \in SUBSET Teams |->
        {o \in [1..Cardinality(S) -> S] :
            \A i, j \in 1..Cardinality(S) : i # j => o[i] # o[j]}]

(******************************* actions ***********************************)
NoOutcome == [pc |-> "none", metrics |-> <<>>]

Init ==
    /\ nfl_odds_df \in OddsFrames
    /\ current_week \in 1..MaxWeek
    /\ selected_teams \in {S \in SUBSET Teams : Cardinality(S) <= MaxSelected}
    /\ optimization_duration \in 0..MaxDuration
    /\ pc = "start"
    /\ remaining_weeks = <<>>
    /\ available_teams = {}
    /\ x = {}
    /\ objective = <<>>
    /\ prob_status = "none"
    /\ chosen = {}
    /\ metrics = <<>>
    /\ run = 1
    /\ first = NoOutcome

\* lines 106-111
Build ==
    /\ pc = "start"
    /\ remaining_weeks' =
           RemainingWeeks(nfl_odds_df, current_week, optimization_duration)
    /\ available_teams' = AvailableTeams(nfl_odds_df, selected_teams)
    /\ pc' = "built"
    /\ UNCHANGED <<args, x, objective, prob_status, chosen, metrics, run, first>>

\* lines 113-139
Solve ==
    /\ pc = "built"
    /\ LET keys == VariableKeys(remaining_weeks, available_teams)
           terms == ObjectiveTerms(nfl_odds_df, remaining_weeks, available_teams, keys)
       IN /\ x' = keys
          /\ objective' = terms
          /\ \E out \in SolveOutcomes(keys, terms, remaining_weeks, available_teams) :
                /\ prob_status' = out.status
                /\ chosen' = out.ones
    /\ pc' = "solved"
    /\ UNCHANGED <<args, remaining_weeks, available_teams, metrics, run, first>>

\* lines 141-168
Explain ==
    /\ pc = "solved"
    /\ IF Raises(nfl_odds_df, chosen)
       THEN /\ pc' = "error"
            /\ metrics' = <<>>
       ELSE /\ pc' = "done"
            /\ \E order \in ListOrders[available_teams] :
                  metrics' = WeekLoop(nfl_odds_df, remaining_weeks, order, chosen)
    /\ UNCHANGED <<args, remaining_weeks, available_teams, x, objective,
                   prob_status, chosen, run, first>>

\* the caller runs optimize_survivor_pool once more with the same arguments
Again ==
    /\ pc \in {"done", "error"}
    /\ run = 1
    /\ first' = [pc |-> pc, metrics |-> metrics]
    /\ run' = 2
    /\ pc' = "start"
    /\ remaining_weeks' = <<>>
    /\ available_teams' = {}
    /\ x' = {}
    /\ objective' = <<>>
    /\ prob_status' = "none"
    /\ chosen' = {}
    /\ metrics' = <<>>
    /\ UNCHANGED args

Next == Build \/ Solve \/ Explain \/ Again

Spec == Init /\ [][Next]_vars

(***************************************************************************)
(* Properties.  The notions below are those of the specification (horizon, *)
(* eligible pick, edge weight), stated over the arguments of the call and  *)
(* independently of the operators that model the code.                     *)
(***************************************************************************)
Finished == pc \in {"done", "error"}

LargestWeek == MaxOf({nfl_odds_df[i].Week : i \in 1..Len(nfl_odds_df)})

HorizonStart == current_week

HorizonEnd == Min(current_week + optimization_duration - 1, LargestWeek)

HorizonSlots == HorizonStart..HorizonEnd

PlayingIn(w) ==
    {t \in Teams : \E i \in 1..Len(nfl_odds_df) :
        /\ nfl_odds_df[i].Week = w
        /\ t \in {nfl_odds_df[i].HomeTeam, nfl_odds_df[i].AwayTeam}}

Eligible(w) == PlayingIn(w) \ selected_teams

\* the same team in two rows of the same week of the horizon
ConflictingEvents ==
    \E i, j \in 1..Len(nfl_odds_df) :
        /\ i < j
        /\ nfl_odds_df[i].Week = nfl_odds_df[j].Week
        /\ nfl_odds_df[i].Week \in HorizonSlots
        /\ {nfl_odds_df[i].HomeTeam, nfl_odds_df[i].AwayTeam}
             \cap {nfl_odds_df[j].HomeTeam, nfl_odds_df[j].AwayTeam} # {}

\* weight of the edge (w, t): the probability of t in its game of week w
EdgeWeight(w, t) ==
    LET i == CHOOSE k \in 1..Len(nfl_odds_df) :
                 /\ nfl_odds_df[k].Week = w
                 /\ t \in {nfl_odds_df[k].HomeTeam, nfl_odds_df[k].AwayTeam}
    IN IF t = nfl_odds_df[i].HomeTeam THEN nfl_odds_df[i].HomeProbability
       ELSE nfl_odds_df[i].AwayProbability

NoPick == "-"

\* every assignment that gives each week of the set at most one eligible team
\* and uses no team twice
Assignments(slots) ==
    {f \in [slots -> Teams \cup {NoPick}] :
        /\ \A w \in slots : f[w] # NoPick => f[w] \in Eligible(w)
        /\ \A v, w \in slots : (v # w /\ f[v] # NoPick) => f[v] # f[w]}

RECURSIVE AssignmentWeight(_, _)
AssignmentWeight(f, slots) ==
    IF slots = {} THEN 0
    ELSE LET w == CHOOSE v \in slots : TRUE
         IN (IF f[w] = NoPick THEN 0 ELSE EdgeWeight(w, f[w]))
              + AssignmentWeight(f, slots \ {w})

RECURSIVE PlanWeight(_)
PlanWeight(plan) ==
    IF plan = <<>> THEN 0
    ELSE Head(plan).SelectedTeamProbability + PlanWeight(Tail(plan))

OptimalFor(slots) ==
    \A f \in Assignments(slots) : AssignmentWeight(f, slots) <= PlanWeight(metrics)

RecordsOf(w) == {i \in 1..Len(metrics) : metrics[i].Week = w}

\* C1 (as claimed): the returned plan weighs at least as much as every
\* assignment of at most one eligible team per horizon week without reuse, an
\* edge weighing the team's probability also when its opponent is excluded.
\* Stated for the calls whose solve ended Optimal on a frame free of
\* conflicting events.
C1_Optimality ==
    (pc = "done" /\ prob_status = "Optimal" /\ ~ConflictingEvents)
        => OptimalFor(HorizonSlots)

\* C2 (as claimed): no team is the Selected Team of two records of the
\* returned plan.
C2_ExactlyOncePerPick ==
    pc = "done" =>
        \A i, j \in 1..Len(metrics) :
            i # j => metrics[i].SelectedTeam # metrics[j].SelectedTeam

\* C3 (as claimed): the call returns, and every horizon week with an eligible
\* team has exactly one record, whose selected team plays in that week.
C3_ExactlyOnePerSlot ==
    (Finished /\ ~ConflictingEvents) =>
        /\ pc = "done"
        /\ \A w \in HorizonSlots :
              Eligible(w) # {} =>
                  /\ Cardinality(RecordsOf(w)) = 1
                  /\ \A i \in RecordsOf(w) : metrics[i].SelectedTeam \in PlayingIn(w)

\* C4 (as claimed): a horizon week without eligible team does not make the
\* call fail; the plan has no record for it and is optimal for the other weeks.
C4_UnfilledSlotIsNotAFailure ==
    \A w \in HorizonSlots :
        (Finished /\ ~ConflictingEvents /\ Eligible(w) = {}) =>
            /\ pc = "done"
            /\ RecordsOf(w) = {}
            /\ OptimalFor(HorizonSlots \ {w})

\* C5: no team of selected_teams is the Selected Team of a returned record,
\* and no step of the call changes selected_teams.
C5_ExclusionRespected ==
    /\ [](pc = "done" =>
            \A i \in 1..Len(metrics) : metrics[i].SelectedTeam \notin selected_teams)
    /\ [][selected_teams' = selected_teams]_vars

\* C5 witness: a plan is returned although an excluded team plays in a week
\* the plan covers.
C5_Witness ==
    /\ pc = "done"
    /\ \E i \in 1..Len(metrics) : PlayingIn(metrics[i].Week) \cap selected_teams # {}

\* C6: every returned record, every variable and every objective term lies in
\* a week w with current_week <= w <= min(current_week + duration - 1, largest
\* week of the frame).
C6_HorizonClipping ==
    /\ pc = "done" =>
          \A i \in 1..Len(metrics) : metrics[i].Week \in HorizonSlots
    /\ pc \in {"solved", "done", "error"} =>
          /\ \A k \in x : k[1] \in HorizonSlots
          /\ \A j \in 1..Len(objective) : objective[j].key[1] \in HorizonSlots

\* C6 witness: a plan is returned while a week outside the window holds a game
\* with an available team.
C6_Witness ==
    /\ pc = "done"
    /\ metrics # <<>>
    /\ objective # <<>>
    /\ \E w \in 1..MaxWeek : w \notin HorizonSlots /\ Eligible(w) # {}

\* C7 (as claimed): a second call with the same arguments ends as the first
\* one did, with the identical plan.
C7_Determinism ==
    (run = 2 /\ Finished) => first = [pc |-> pc, metrics |-> metrics]

\* C8 (as claimed): a call whose horizon is empty or inverted, or whose
\* duration is not positive, ends in an error.
C8_InvalidHorizonFailsFast ==
    (Finished /\ (optimization_duration <= 0 \/ HorizonStart > HorizonEnd))
        => pc = "error"

\* C9 (as claimed): a call on a frame in which a team has two games in one
\* week of the horizon ends in an error.
C9_ConflictingEventsFailFast ==
    (Finished /\ ConflictingEvents) => pc = "error"

\* C10: every returned record is explained by a game of its week whose sides
\* are the selected and the opponent team, with each side's own probability.
C10_ExplanationMatchesGame ==
    pc = "done" =>
        \A i \in 1..Len(metrics) :
            LET r == metrics[i]
            IN /\ r.ExpectedValue = r.SelectedTeamProbability
               /\ \E k \in 1..Len(nfl_odds_df) :
                     LET g == nfl_odds_df[k]
                     IN /\ g.Week = r.Week
                        /\ \/ /\ g.HomeTeam = r.SelectedTeam
                              /\ g.AwayTeam = r.OpponentTeam
                              /\ g.HomeProbability = r.SelectedTeamProbability
                              /\ g.AwayProbability = r.OpponentTeamProbability
                           \/ /\ g.AwayTeam = r.SelectedTeam
                              /\ g.HomeTeam = r.OpponentTeam
                              /\ g.AwayProbability = r.SelectedTeamProbability
                              /\ g.HomeProbability = r.OpponentTeamProbability

\* C10 witness: a plan with a record for a home side and a record for an away
\* side, each in a game whose two probabilities differ.
C10_Witness ==
    /\ pc = "done"
    /\ \E i, j \in 1..Len(metrics) :
          /\ metrics[i].SelectedTeamProbability # metrics[i].OpponentTeamProbability
          /\ metrics[j].SelectedTeamProbability # metrics[j].OpponentTeamProbability
          /\ <<metrics[i].SelectedTeam, metrics[i].OpponentTeam>> \in Fixtures
          /\ <<metrics[j].OpponentTeam, metrics[j].SelectedTeam>> \in Fixtures

====
